---------------------------- MODULE Spec2Model ----------------------------
(***************************************************************************)
(* The commit use case of nomi (usecases/commit/main.go): OnStart stashes  *)
(* the pending changes, replays them, reads the stash diff, negotiates a   *)
(* commit plan with the text-to-JSON backend, applies and commits each     *)
(* action of the accepted plan, and drops the stash in a deferred call.    *)
(*                                                                         *)
(* One action of the model is the code between two calls that may suspend  *)
(* (console.Exec, textToJSON.Do, selector.SelectBool, inputArea.Read): the *)
(* call returns with a result drawn from a small set and the code runs on  *)
(* to the next call.  The git repository behind console.Exec (stash stack, *)
(* working tree, index, history) is part of the state.                     *)
(***************************************************************************)
EXTENDS Integers, Sequences, FiniteSets, TLC

\* ------------------------------------------------------------- bounds
\* Longest commit plan the backend returns (ActionPool holds three actions
\* and a plan holds none twice, so no plan is longer than three).
MaxPlanLen == 3
\* Most backend requests of one run (the code's loop has no bound).
MaxRounds == 2
\* Most stash entries pushed by somebody else than this run.
MaxForeign == 1

\* ------------------------------------------------------------- values
NL == "\n"

\* Pending changes of the working tree: "new" is a new file added to the
\* index, "quiet" a change that git stash show --patch renders as no text.
Changes == {"new", "quiet"}

\* type action struct
ActionPool ==
    { [filePath |-> "a.go", patch |-> <<"d", NL, "x">>, commitMessage |-> "feat: a"],
      [filePath |-> "b.go", patch |-> <<"d", NL>>,      commitMessage |-> "fix: b"],
      [filePath |-> "c.go", patch |-> <<>>,             commitMessage |-> "docs: c"] }

SeqsUpTo(S, n) == UNION { [1..k -> S] : k \in 0..n }

\* type commitPlan struct: the values of its CommitPlan field.  A plan
\* splits one diff, so no action comes twice in it.
Plans ==
    { p \in SeqsUpTo(ActionPool, MaxPlanLen) :
        \A j, k \in 1..Len(p) : j # k => p[j] # p[k] }

\* What textToJSON.Do may return as resp: text that is no JSON, a JSON
\* object without a commitPlan key, one whose commitPlan is no array, and
\* one holding a plan.
Responses ==
    { [text |-> "garbage",    commitPlan |-> <<>>],
      [text |-> "no key",     commitPlan |-> <<>>],
      [text |-> "wrong type", commitPlan |-> <<>>] }
    \cup { [text |-> "plan", commitPlan |-> p] : p \in Plans }

\* No response yet.
NoResponse == [text |-> "unset", commitPlan |-> <<>>]

UnmarshalLenient(r) == [ok |-> TRUE, plan |-> r.commitPlan]

\* json.Unmarshal([]byte(resp), &plan): a syntax error or a commitPlan of
\* another type than an array of objects is an error, a missing key is not.
Unmarshal(r) ==
    IF r.text \in {"garbage", "wrong type"} THEN [ok |-> FALSE, plan |-> <<>>]
    ELSE IF r.text = "no key" THEN [ok |-> TRUE, plan |-> <<>>]
    ELSE [ok |-> TRUE, plan |-> r.commitPlan]

\* What inputArea.Read may return.
Instructions == {"focus on the parser", "split more"}

\* console.Exec: (result, err).  err is a failure to run the command at all.
ExecResults ==
    { [err |-> TRUE,  success |-> FALSE],
      [err |-> FALSE, success |-> FALSE],
      [err |-> FALSE, success |-> TRUE] }

\* err != nil || !result.Success()
Failed(res) == res.err \/ ~res.success

\* ------------------------------------------------------------ strings
\* strings.HasSuffix(s, "\n")
HasSuffixNL(s) == Len(s) > 0 /\ s[Len(s)] = NL

NormalizePatchNever(p) == p

\* if !strings.HasSuffix(a.Patch, "\n") { a.Patch += "\n" }
NormalizePatch(p) == IF HasSuffixNL(p) THEN p ELSE Append(p, NL)

\* The text of s before the first occurrence of c: strings.Split(s, c)[0].
RECURSIVE Before(_, _)
Before(s, c) ==
    IF s = <<>> \/ Head(s) = c THEN <<>>
    ELSE <<Head(s)>> \o Before(Tail(s), c)

RECURSIVE TrimLeft(_)
TrimLeft(s) ==
    IF s # <<>> /\ Head(s) \in {" ", NL} THEN TrimLeft(Tail(s)) ELSE s

RECURSIVE TrimRight(_)
TrimRight(s) ==
    IF s # <<>> /\ s[Len(s)] \in {" ", NL}
    THEN TrimRight(SubSeq(s, 1, Len(s) - 1)) ELSE s

\* strings.TrimSpace
TrimSpace(s) == TrimRight(TrimLeft(s))

\* stashRef of stashChanges
StashRef(output) == TrimSpace(Before(Before(output, NL), ":"))

\* Output of a successful git stash push
SavedOutput == <<"S", "a", "v", "e", "d", ":", " ", "n">>
NoChangesOutput == <<"N", "o", " ", "c", "h", "a", "n", "g", "e", "s">>
SilentOutput == <<>>

\* ------------------------------------------------------------ state
VARIABLES
    pc,            \* where OnStart is
    ret,           \* what OnStart returned ("none" while it runs)
    deferred,      \* the deferred deleteStash is registered
    cancelled,     \* ctx.Done() is closed
    conversation,  \* chat.Conversation: the messages added
    requests,      \* the transcripts textToJSON.Do was called with
    resp,          \* the last response of the backend
    plan,          \* var plan commitPlan of the current round
    accepted,      \* SelectBool returned true
    i,             \* index of the executor's loop
    errors,        \* var errors []error
    confirmations, \* the "Committed ..." lines logged
    cmds,          \* the commands console.Exec was called with
    stack,         \* git: the stash stack, stash@{0} first
    wt,            \* git: the pending changes of the working tree
    index,         \* git: what is staged
    commits,       \* git: the commits created
    foreign,       \* stash entries pushed by somebody else so far
    pre,           \* git: the pending changes when OnStart was called
    lines,         \* ScreenBuf.lines: a slice, its backing array and length
    height,        \* ScreenBuf.height
    written        \* the lines written to the ScreenBuf since its last Clear

vars == <<pc, ret, deferred, cancelled, conversation, requests, resp, plan,
          accepted, i, errors, confirmations, cmds, stack, wt, index,
          commits, foreign, pre, lines, height, written>>

\* The state of OnStart and its repository, and the state of a ScreenBuf.
workflow == <<pc, ret, deferred, cancelled, conversation, requests, resp, plan,
              accepted, i, errors, confirmations, cmds, stack, wt, index,
              commits, foreign, pre>>
screen == <<lines, height, written>>

flow == <<conversation, requests, resp, plan, accepted, i, errors,
          confirmations>>
git == <<stack, wt, index, commits>>

NoIndex == [staged |-> {}, patches |-> {}]

\* One call of console.Exec as the gateway sees it: the command, its stdin
\* or message, whether it succeeded and its output; idx is the executor's i.
Cmd(name, arg, idx, ok, out) ==
    [name |-> name, arg |-> arg, idx |-> idx, ok |-> ok, out |-> out]

\* git stash show --patch of a stash entry
DiffText(changes) ==
    IF "new" \in changes THEN "+new"
    ELSE IF "foreign" \in changes THEN "+foreign"
    ELSE ""

Message(role, content) == [role |-> role, content |-> content]

\* No ScreenBuf is in use.
NoScreen ==
    /\ lines = [arr |-> <<>>, len |-> 0]
    /\ height = 0
    /\ written = <<>>

Init ==
    /\ NoScreen
    /\ pc = "start"
    /\ ret = [kind |-> "none", detail |-> ""]
    /\ deferred = FALSE
    /\ cancelled = FALSE
    /\ conversation = <<>>
    /\ requests = <<>>
    /\ resp = NoResponse
    /\ plan = <<>>
    /\ accepted = FALSE
    /\ i = 0
    /\ errors = <<>>
    /\ confirmations = <<>>
    /\ cmds = <<>>
    /\ stack = <<>>
    /\ wt \in {{}, {"new"}, {"quiet"}}
    /\ index = [staged |-> wt \cap {"new"}, patches |-> {}]
    /\ commits = <<>>
    /\ foreign = 0
    /\ pre = wt


\* ------------------------------------------------------ git, as run by
\* console.Exec.  A command that fails changes nothing.

\* git stash push --include-untracked: nothing is saved from a clean tree.
GitStashPush ==
    IF wt = {}
    THEN UNCHANGED <<stack, wt, index>>
    ELSE /\ stack' = <<[owner |-> "run", changes |-> wt]>> \o stack
         /\ wt' = {}
         /\ index' = NoIndex

\* git stash apply stash@{0} (no --index): new files come back staged.
GitStashApply ==
    /\ wt' = wt \cup stack[1].changes
    /\ index' = [index EXCEPT !.staged = @ \cup (stack[1].changes \cap {"new"})]
    /\ UNCHANGED stack

\* git reset
GitReset == index' = NoIndex /\ UNCHANGED <<stack, wt>>

\* git apply --cached -p1 - : stages the hunks of action k's patch.
GitApplyCached(k) ==
    /\ index' = [index EXCEPT !.patches = @ \cup {k}]
    /\ UNCHANGED <<stack, wt, commits>>

\* git commit --message m : commits what is staged.
GitCommit(k, m) ==
    /\ commits' = Append(commits, [idx |-> k, msg |-> m,
                                   staged |-> index.staged,
                                   patches |-> index.patches])
    /\ index' = NoIndex
    /\ UNCHANGED <<stack, wt>>

\* git stash drop stash@{0}
GitStashDrop == stack' = Tail(stack) /\ UNCHANGED <<wt, index, commits>>

\* ------------------------------------------------------------ OnStart

ReturnToNoDefer(d) == "done"

\* A return of OnStart runs the deferred call when it is registered.
ReturnTo(d) == IF d THEN "defer" ELSE "done"

\* return fmt.Errorf(...) / return nil
Return(kind, detail) ==
    /\ ret' = [kind |-> kind, detail |-> detail]
    /\ pc' = ReturnTo(deferred)

AddMessageFirst(conv, m) == <<m>> \o conv

\* conversation.AddMessage
AddMessage(conv, m) == Append(conv, m)

\* logger.Info + conversation.AddMessage(system prompt), up to the first Exec
Start ==
    /\ pc = "start"
    /\ conversation' = AddMessage(conversation, Message("system", "agentPrompt"))
    /\ pc' = "check"
    /\ UNCHANGED <<ret, deferred, cancelled, requests, resp, plan, accepted, i,
                   errors, confirmations, cmds, foreign>>
    /\ UNCHANGED git
    /\ UNCHANGED <<pre, screen>>

CheckFailedOnErrOnly(res) == res.err

\* checkGitRepository: err != nil || !result.Success()
CheckFailed(res) == Failed(res)

\* checkGitRepository and what OnStart does with its result
CheckGitRepository ==
    /\ pc = "check"
    /\ \E res \in ExecResults :
        /\ cmds' = Append(cmds, Cmd("rev-parse", <<>>, 0, ~Failed(res), ""))
        /\ IF CheckFailed(res)
           THEN Return("not a git repository", "")
           ELSE pc' = "stash" /\ UNCHANGED ret
    /\ UNCHANGED <<deferred, cancelled, foreign>>
    /\ UNCHANGED flow
    /\ UNCHANGED git
    /\ UNCHANGED <<pre, screen>>

\* The results of a failed git stash push: result.Error and result.Output
PushFailures ==
    { [err |-> TRUE, success |-> FALSE, output |-> <<>>, error |-> ""] }
    \cup { [err |-> FALSE, success |-> FALSE, output |-> o, error |-> e] :
             o \in {<<>>, <<"o">>}, e \in {"", "fatal"} }

\* The error stashChanges returns for a failed command
StashErrorDetail(res) ==
    IF res.err THEN "exec error"
    ELSE IF res.error # "" THEN "stderr"
    ELSE IF res.output # <<>> THEN "stdout"
    ELSE "no output"

\* stashChanges and what OnStart does with its result
StashChanges ==
    /\ pc = "stash"
    /\ \/ \E res \in PushFailures :
            /\ cmds' = Append(cmds, Cmd("stash push", <<>>, 0, FALSE, ""))
            /\ Return("failed to stash changes", StashErrorDetail(res))
            /\ UNCHANGED git
       \/ \E out \in (IF wt = {} THEN {NoChangesOutput}
                      ELSE {SavedOutput, SilentOutput}) :
            /\ cmds' = Append(cmds, Cmd("stash push", <<>>, 0, TRUE, ""))
            /\ GitStashPush
            /\ UNCHANGED commits
            /\ IF StashRef(out) = <<>>
               THEN Return("failed to stash changes", "no stash reference")
               ELSE pc' = "unstash" /\ UNCHANGED ret
    /\ UNCHANGED <<deferred, cancelled, foreign>>
    /\ UNCHANGED flow
    /\ UNCHANGED <<pre, screen>>

\* unstashChanges, first command: git stash apply stash@{0}
UnstashApply ==
    /\ pc = "unstash"
    /\ \E res \in ExecResults :
        /\ ~Failed(res) => stack # <<>>
        /\ cmds' = Append(cmds, Cmd("stash apply", <<>>, 0, ~Failed(res), ""))
        /\ IF Failed(res)
           THEN Return("failed to unstash changes", "apply") /\ UNCHANGED git
           ELSE GitStashApply /\ pc' = "reset" /\ UNCHANGED <<ret, commits>>
    /\ UNCHANGED <<deferred, cancelled, foreign>>
    /\ UNCHANGED flow
    /\ UNCHANGED <<pre, screen>>

ResetFailedOnErrOnly(res) == res.err

\* unstashChanges, git reset: err != nil || !result.Success()
ResetFailed(res) == Failed(res)

\* unstashChanges, second command: git reset; then the defer statement
UnstashReset ==
    /\ pc = "reset"
    /\ \E res \in ExecResults :
        /\ cmds' = Append(cmds, Cmd("reset", <<>>, 0, ~Failed(res), ""))
        /\ IF ResetFailed(res)
           THEN /\ Return("failed to unstash changes", "reset")
                /\ UNCHANGED <<git, deferred>>
           ELSE /\ GitReset
                /\ deferred' = TRUE
                /\ pc' = "diff"
                /\ UNCHANGED <<ret, commits>>
    /\ UNCHANGED <<cancelled, foreign>>
    /\ UNCHANGED flow
    /\ UNCHANGED <<pre, screen>>

EmptyNever(buffer) == FALSE

\* buffer == ""
Empty(buffer) == buffer = ""

\* getStashDiff and what OnStart does with its result
GetStashDiff ==
    /\ pc = "diff"
    /\ \E res \in ExecResults :
        /\ ~Failed(res) => stack # <<>>
        /\ cmds' = Append(cmds, Cmd("stash show", <<>>, 0, ~Failed(res),
                                    IF Failed(res) THEN ""
                                    ELSE DiffText(stack[1].changes)))
        /\ IF Failed(res)
           THEN Return("failed to get stash diff", "") /\ UNCHANGED conversation
           ELSE LET buffer == DiffText(stack[1].changes) IN
                IF Empty(buffer)
                THEN Return("nil", "") /\ UNCHANGED conversation
                ELSE /\ conversation' =
                            AddMessage(conversation, Message("user", buffer))
                     /\ pc' = "loop"
                     /\ UNCHANGED ret
    /\ UNCHANGED <<deferred, cancelled, requests, resp, plan, accepted, i,
                   errors, confirmations, foreign>>
    /\ UNCHANGED git
    /\ UNCHANGED <<pre, screen>>

CtxDoneNever == FALSE

\* case <-ctx.Done()
CtxDone == cancelled

\* for { select { case <-ctx.Done(): return ...; default: ... } }
LoopCheck ==
    /\ pc = "loop"
    /\ IF CtxDone
       THEN Return("context cancelled", "")
       ELSE pc' = "backend" /\ UNCHANGED ret
    /\ UNCHANGED <<deferred, cancelled, cmds, foreign>>
    /\ UNCHANGED flow
    /\ UNCHANGED git
    /\ UNCHANGED <<pre, screen>>

NextPlanMerged(old, new) == old \o new

\* var plan commitPlan, declared in the round: the plan of the round before
\* is gone.
NextPlan(old, new) == new

\* textToJSON.Do(ctx, conversation), json.Unmarshal and the printed plan
TextToJSON ==
    /\ pc = "backend"
    /\ requests' = Append(requests, conversation)
    /\ \/ /\ Return("failed to convert text to JSON", "")
          /\ UNCHANGED <<resp, plan>>
       \/ \E r \in Responses :
            /\ resp' = r
            /\ IF ~Unmarshal(r).ok
               THEN Return("failed to unmarshal commit plan", "")
                    /\ UNCHANGED plan
               ELSE /\ plan' = NextPlan(plan, Unmarshal(r).plan)
                    /\ pc' = "prompt"
                    /\ UNCHANGED ret
    /\ UNCHANGED <<deferred, cancelled, conversation, accepted, i, errors,
                   confirmations, cmds, foreign>>
    /\ UNCHANGED git
    /\ UNCHANGED <<pre, screen>>

\* The end of the executor's loop: i past the last action, return nil
LoopEnd(k) == i' = k /\ Return("nil", "")

\* The next iteration of  for i, a := range plan.CommitPlan
Iterate(k) ==
    IF k < Len(plan)
    THEN i' = k /\ pc' = "apply" /\ UNCHANGED ret
    ELSE LoopEnd(k)

ContinueAsBreak(k) == LoopEnd(k)

\* continue, after an error was appended
Continue(k) == Iterate(k)

\* selector.SelectBool("Do you want to commit these changes?", true).  The
\* user declines at most MaxRounds - 1 plans while the context is live; once
\* it is cancelled the select of the next round ends the loop.
SelectBool ==
    /\ pc = "prompt"
    /\ \/ /\ accepted' = TRUE
          /\ errors' = <<>>
          /\ Iterate(0)
       \/ /\ Len(requests) < MaxRounds \/ cancelled
          /\ pc' = "read"
          /\ UNCHANGED <<ret, accepted, errors, i>>
    /\ UNCHANGED <<deferred, cancelled, conversation, requests, resp, plan,
                   confirmations, cmds, foreign>>
    /\ UNCHANGED git
    /\ UNCHANGED <<pre, screen>>

\* newInstructions := inputArea.Read(">>> "); conversation.AddMessage; continue
ReadInstructions ==
    /\ pc = "read"
    /\ \E text \in Instructions :
        conversation' = AddMessage(conversation, Message("user", text))
    /\ pc' = "loop"
    /\ UNCHANGED <<ret, deferred, cancelled, requests, resp, plan, accepted, i,
                   errors, confirmations, cmds, foreign>>
    /\ UNCHANGED git
    /\ UNCHANGED <<pre, screen>>

\* fmt.Errorf("failed to apply patch %d: ...", i, ...) and
\* fmt.Errorf("failed to commit changes %d: ...", i, ...)
ActionError(step, k) == [step |-> step, i |-> k]

\* git apply --cached -p1 - with the patch of action i as input
ExecApply ==
    /\ pc = "apply"
    /\ LET a == plan[i + 1] IN
       \E res \in ExecResults :
        /\ cmds' = Append(cmds, Cmd("apply", NormalizePatch(a.patch), i,
                                    ~Failed(res), ""))
        /\ IF Failed(res)
           THEN /\ errors' = Append(errors, ActionError("apply", i))
                /\ Continue(i + 1)
                /\ UNCHANGED git
           ELSE /\ GitApplyCached(i)
                /\ pc' = "commit"
                /\ UNCHANGED <<ret, i, errors>>
    /\ UNCHANGED <<deferred, cancelled, conversation, requests, resp, plan,
                   accepted, confirmations, foreign>>
    /\ UNCHANGED <<pre, screen>>

\* git commit --message a.CommitMessage
ExecCommit ==
    /\ pc = "commit"
    /\ LET a == plan[i + 1] IN
       \E res \in ExecResults :
        /\ cmds' = Append(cmds, Cmd("commit", a.commitMessage, i,
                                    ~Failed(res), ""))
        /\ IF Failed(res)
           THEN /\ errors' = Append(errors, ActionError("commit", i))
                /\ Continue(i + 1)
                /\ UNCHANGED <<git, confirmations>>
           ELSE /\ GitCommit(i, a.commitMessage)
                /\ confirmations' =
                       Append(confirmations, [i |-> i, msg |-> a.commitMessage])
                /\ Iterate(i + 1)
                /\ UNCHANGED errors
    /\ UNCHANGED <<deferred, cancelled, conversation, requests, resp, plan,
                   accepted, foreign>>
    /\ UNCHANGED <<pre, screen>>

ReportedAfterDeferEscalated(r, res) ==
    IF Failed(res) THEN [kind |-> "failed to delete stash", detail |-> ""] ELSE r

\* What OnStart returns once the deferred function has run: the function
\* assigns the error of deleteStash to the local err and logs it; the result
\* of OnStart is unnamed and was set by the return statement.
ReportedAfterDefer(r, res) == r

\* The deferred call: deleteStash; its error is logged only
DeleteStash ==
    /\ pc = "defer"
    /\ \E res \in ExecResults :
        /\ ~Failed(res) => stack # <<>>
        /\ cmds' = Append(cmds, Cmd("stash drop", <<>>, 0, ~Failed(res), ""))
        /\ IF Failed(res) THEN UNCHANGED git ELSE GitStashDrop
        /\ ret' = ReportedAfterDefer(ret, res)
    /\ pc' = "done"
    /\ UNCHANGED <<deferred, cancelled, foreign>>
    /\ UNCHANGED flow
    /\ UNCHANGED <<pre, screen>>

\* ------------------------------------------------------- environment

\* The context is cancelled (a signal), at any moment of the run.
Cancel ==
    /\ pc # "done"
    /\ ~cancelled
    /\ cancelled' = TRUE
    /\ UNCHANGED <<pc, ret, deferred, cmds, foreign>>
    /\ UNCHANGED flow
    /\ UNCHANGED git
    /\ UNCHANGED <<pre, screen>>

\* Somebody else runs git stash push in the same repository.  When it
\* happens matters only relative to the run's own stash commands (push,
\* apply, show, drop), so it is taken right before one of them.
ForeignPush ==
    /\ pc \in {"stash", "unstash", "diff", "defer"}
    /\ foreign < MaxForeign
    /\ foreign' = foreign + 1
    /\ stack' = <<[owner |-> "foreign", changes |-> {"foreign"}]>> \o stack
    /\ UNCHANGED <<pc, ret, deferred, cancelled, cmds, wt, index, commits>>
    /\ UNCHANGED flow
    /\ UNCHANGED <<pre, screen>>

\* The developer edits the working tree after the restore.  The run never
\* reads the working tree again, so one moment stands for all later ones.
LiveEdit ==
    /\ pc = "diff"
    /\ "edit" \notin wt
    /\ wt' = wt \cup {"edit"}
    /\ UNCHANGED <<pc, ret, deferred, cancelled, cmds, foreign, stack, index,
                   commits>>
    /\ UNCHANGED flow
    /\ UNCHANGED <<pre, screen>>

Next ==
    \/ Start
    \/ CheckGitRepository
    \/ StashChanges
    \/ UnstashApply
    \/ UnstashReset
    \/ GetStashDiff
    \/ LoopCheck
    \/ TextToJSON
    \/ SelectBool
    \/ ReadInstructions
    \/ ExecApply
    \/ ExecCommit
    \/ DeleteStash
    \/ Cancel
    \/ ForeignPush
    \/ LiveEdit

Spec == Init /\ [][Next]_vars

\* The steps of OnStart, without those of its environment.
OnStartStep ==
    \/ Start
    \/ CheckGitRepository
    \/ StashChanges
    \/ UnstashApply
    \/ UnstashReset
    \/ GetStashDiff
    \/ LoopCheck
    \/ TextToJSON
    \/ SelectBool
    \/ ReadInstructions
    \/ ExecApply
    \/ ExecCommit
    \/ DeleteStash

\* Every backend call, prompt and command returns, and OnStart goes on.
FairSpec == Spec /\ WF_vars(OnStartStep)

\* ------------------------------------------------------------ ScreenBuf

MaxTermHeight == 5
MaxWrites == 4

FallbackHeight == 24
PromptLines == 2
MinHeight == 1

LineTexts == {"a", "b"}

\* What term.GetSize returns: a height, or an error
TermSizes ==
    [height : 0..MaxTermHeight, err : {FALSE}] \cup {[height |-> 0, err |-> TRUE]}

\* make([]string, 0, n): length 0 over an array of n empty strings
Make(n) == [arr |-> [k \in 1..n |-> ""], len |-> 0]

\* NewScreenBuf: the height of the buffer for a terminal size
NewHeight(size) ==
    LET h == (IF size.err THEN FallbackHeight ELSE size.height) - PromptLines
    IN IF h < MinHeight THEN MinHeight ELSE h

\* The strings of a slice
Elems(sl) == SubSeq(sl.arr, 1, sl.len)

\* copy(sl, sl[1:]): the elements move one place towards the front
CopyTail(sl) ==
    [sl EXCEPT !.arr = [k \in 1..Len(sl.arr) |->
                          IF k < sl.len THEN sl.arr[k + 1] ELSE sl.arr[k]]]

\* append(sl, s) while len(sl) < cap(sl): the array is written in place
AppendInPlace(sl, s) ==
    [arr |-> [sl.arr EXCEPT ![sl.len + 1] = s], len |-> sl.len + 1]

ScrollUpNoCopy(sl, h, s) == [sl EXCEPT !.arr[h] = s]

\* copy(sb.lines, sb.lines[1:]); sb.lines[sb.height-1] = s
ScrollUp(sl, h, s) == [CopyTail(sl) EXCEPT !.arr[h] = s]

\* OnStart is not running.
NoWorkflow ==
    /\ pc = "idle"
    /\ ret = [kind |-> "none", detail |-> ""]
    /\ deferred = FALSE
    /\ cancelled = FALSE
    /\ conversation = <<>>
    /\ requests = <<>>
    /\ resp = NoResponse
    /\ plan = <<>>
    /\ accepted = FALSE
    /\ i = 0
    /\ errors = <<>>
    /\ confirmations = <<>>
    /\ cmds = <<>>
    /\ stack = <<>>
    /\ wt = {}
    /\ index = NoIndex
    /\ commits = <<>>
    /\ foreign = 0
    /\ pre = {}

\* NewScreenBuf
InitScreen ==
    /\ NoWorkflow
    /\ \E size \in TermSizes :
         /\ height = NewHeight(size)
         /\ lines = Make(NewHeight(size))
    /\ written = <<>>

\* ScreenBuf.WriteLine
WriteLine ==
    /\ Len(written) < MaxWrites
    /\ \E s \in LineTexts :
         /\ lines' = (IF lines.len = height
                      THEN ScrollUp(lines, height, s)
                      ELSE AppendInPlace(lines, s))
         /\ written' = Append(written, s)
    /\ UNCHANGED height
    /\ UNCHANGED workflow

\* ScreenBuf.Clear: sb.lines = sb.lines[:0]
Clear ==
    /\ lines' = [lines EXCEPT !.len = 0]
    /\ written' = <<>>
    /\ UNCHANGED height
    /\ UNCHANGED workflow

NextScreen ==
    \/ WriteLine
    \/ Clear

SpecScreen == InitScreen /\ [][NextScreen]_vars

\* ------------------------------------------------------- properties

Returned == pc = "done"

\* How often a command was issued.
Count(name) == Cardinality({k \in 1..Len(cmds) : cmds[k].name = name})

\* No patch-apply and no commit was issued.
NoApplyNoCommit == \A k \in 1..Len(cmds) : cmds[k].name \notin {"apply", "commit"}

\* The errors of OnStart that come before the defer statement.
BeforeDefer ==
    {"not a git repository", "failed to stash changes",
     "failed to unstash changes"}

C2_NoSnapshotSurvives ==
    Returned => \A k \in 1..Len(stack) : stack[k].owner # "run"

\* The recorded commands of action k (k counted from 0, as the code does).
ApplyOk(k) ==
    \E n \in 1..Len(cmds) :
        cmds[n].name = "apply" /\ cmds[n].idx = k /\ cmds[n].ok
CommitOk(k) ==
    \E n \in 1..Len(cmds) :
        cmds[n].name = "commit" /\ cmds[n].idx = k /\ cmds[n].ok
CountFor(name, k) ==
    Cardinality({n \in 1..Len(cmds) : cmds[n].name = name /\ cmds[n].idx = k})
ErrorsFor(k) == Cardinality({n \in 1..Len(errors) : errors[n].i = k})
ConfirmationsFor(k) ==
    Cardinality({n \in 1..Len(confirmations) : confirmations[n].i = k})
AppliesIssued == SelectSeq(cmds, LAMBDA c : c.name = "apply")

\* C3: failure isolation.  Of an accepted plan, when OnStart has returned, a
\* patch-apply was issued for every action, in plan order; during and after
\* the execution every action dealt with has a commit issued (with its
\* message) exactly when its patch-apply succeeded, one recorded error when
\* its apply or its commit failed and none otherwise, and one confirmation
\* exactly when both succeeded.
C3_FailureIsolation ==
    accepted =>
      /\ pc \in {"defer", "done"} => i = Len(plan)
      /\ Len(AppliesIssued) = (IF pc = "commit" THEN i + 1 ELSE i)
      /\ \A n \in 1..Len(AppliesIssued) : AppliesIssued[n].idx = n - 1
      /\ \A n \in 1..Len(cmds) :
           cmds[n].name = "commit" =>
             cmds[n].arg = plan[cmds[n].idx + 1].commitMessage
      /\ \A k \in 0..(i - 1) :
           /\ CountFor("apply", k) = 1
           /\ CountFor("commit", k) = (IF ApplyOk(k) THEN 1 ELSE 0)
           /\ ErrorsFor(k) = (IF ApplyOk(k) /\ CommitOk(k) THEN 0 ELSE 1)
           /\ ConfirmationsFor(k) = (IF ApplyOk(k) /\ CommitOk(k) THEN 1 ELSE 0)
      /\ Len(errors) + Len(confirmations) = i

\* The case of the specification: three actions, the patch-apply of the
\* second fails, the first and the third are committed and confirmed.
C3_Witness ==
    /\ Returned /\ accepted /\ Len(plan) = 3
    /\ ~ApplyOk(1) /\ CountFor("apply", 1) = 1 /\ CountFor("commit", 1) = 0
    /\ CommitOk(0) /\ CommitOk(2)
    /\ Len(errors) = 1 /\ Len(confirmations) = 2

\* What the caller of OnStart gets as the errors of the run.
ReportedErrors == IF ret.kind = "nil" THEN <<>> ELSE <<ret>>

\* C4: after the execution of an accepted plan, what OnStart returns holds
\* exactly the recorded per-action errors.
C4_ErrorsReturned == (Returned /\ accepted) => ReportedErrors = errors

\* C5: every commit created carries the message of one action of the plan
\* and holds exactly what that action's patch staged.
C5_CommitIsOneAction ==
    \A n \in 1..Len(commits) :
        /\ commits[n].msg = plan[commits[n].idx + 1].commitMessage
        /\ commits[n].patches = {commits[n].idx}
        /\ commits[n].staged = {}

\* The backend's text is no JSON at all or holds no array as commitPlan.
Malformed(r) == r.text \in {"garbage", "wrong type"}

\* C6: once the backend has answered with text that does not parse as a
\* commit plan, OnStart is returning the unmarshal error (it asks the backend
\* nothing more), and no patch-apply and no commit was issued.
C6_MalformedPlanIsFatal ==
    Malformed(resp) =>
      /\ ret.kind = "failed to unmarshal commit plan"
      /\ pc \in {"defer", "done"}
      /\ ~accepted
      /\ NoApplyNoCommit

\* The second round's answer is malformed: the run has returned the error.
C6_Witness ==
    Returned /\ Malformed(resp) /\ Len(requests) = 2 /\ Count("stash drop") = 1

Negotiating == pc \in {"loop", "backend", "prompt", "read"}

Refinements ==
    IF Len(conversation) <= 2 THEN <<>>
    ELSE SubSeq(conversation, 3, Len(conversation))

\* The transcript of request n: the system instruction, the diff and the
\* first n - 1 refinement turns, in the order given.
TranscriptsInOrder ==
    /\ \A n \in 1..Len(requests) :
         /\ Len(requests[n]) = n + 1
         /\ requests[n] = SubSeq(conversation, 1, n + 1)
         /\ requests[n][1].role = "system"
         /\ \A m \in 2..(n + 1) : requests[n][m].role = "user"
    /\ Len(conversation) >= 2 => conversation[2].content \in {"+new", "+foreign"}
    /\ \A n \in 1..Len(Refinements) : Refinements[n].content \in Instructions

\* What is executed is the plan of the last response, the accepted one.
OnlyAcceptedPlanExecuted ==
    /\ ~accepted => NoApplyNoCommit
    /\ accepted =>
         /\ resp.text \in {"plan", "no key"}
         /\ plan = (IF resp.text = "plan" THEN resp.commitPlan ELSE <<>>)
         /\ \A n \in 1..Len(cmds) :
              /\ cmds[n].name = "apply" =>
                   /\ cmds[n].idx < Len(plan)
                   /\ cmds[n].arg \in {plan[cmds[n].idx + 1].patch,
                                       Append(plan[cmds[n].idx + 1].patch, NL)}
              /\ cmds[n].name = "commit" =>
                   cmds[n].arg = plan[cmds[n].idx + 1].commitMessage

\* Refinement n was followed by a request whose transcript ends with it.
Requested(n) ==
    /\ Len(requests) >= n + 1
    /\ requests[n + 1][n + 2] = Refinements[n]

\* C8 as the claim states it: every refinement text is followed by exactly
\* one backend request, whose transcript ends with it (a run that has
\* returned made a request for each refinement it was given), the
\* transcripts are the conversation in order, and only the accepted plan is
\* executed.
C8_RefinementThenOneRequest ==
    /\ TranscriptsInOrder
    /\ OnlyAcceptedPlanExecuted
    /\ Len(requests) <= Len(Refinements) + 1
    /\ Returned => \A n \in 1..Len(Refinements) : Requested(n)

\* C8, amended: the same, except for the last refinement of a run that
\* returns "context cancelled": the cancellation was seen by the loop's
\* check before the request, and no request follows that refinement.
C8_RefinementThenOneRequestUnlessCancelled ==
    /\ TranscriptsInOrder
    /\ OnlyAcceptedPlanExecuted
    /\ Len(requests) <= Len(Refinements) + 1
    /\ pc \in {"defer", "done"} =>
         /\ \A n \in 1..(Len(Refinements) - 1) : Requested(n)
         /\ Len(Refinements) >= 1 =>
              (Requested(Len(Refinements)) <=> ret.kind # "context cancelled")

\* A plan was rejected with a refinement text, the second request ended with
\* that text, and the plan of the second round was accepted and committed.
C8_Witness ==
    /\ Returned /\ accepted /\ Len(requests) = 2
    /\ requests[2][Len(requests[2])].content = "focus on the parser"
    /\ Len(confirmations) >= 1

\* The diff git stash show returned was empty.
EmptyDiffExtracted ==
    \E n \in 1..Len(cmds) :
        cmds[n].name = "stash show" /\ cmds[n].ok /\ cmds[n].out = ""

CmdNames == [n \in 1..Len(cmds) |-> cmds[n].name]

\* C9 as the claim states it: a run whose diff was empty returns nil having
\* issued capture, restore and release commands only, no backend request and
\* no commit.
C9_EmptyDiffOnlySnapshotCommands ==
    (Returned /\ EmptyDiffExtracted) =>
      /\ ret.kind = "nil"
      /\ \A n \in 1..Len(cmds) :
           cmds[n].name \in {"stash push", "stash apply", "reset", "stash drop"}
      /\ requests = <<>>
      /\ commits = <<>>

\* C9, amended: a run whose diff was empty returns nil having issued exactly
\* the repository check, the capture, the two restore commands, the diff
\* extraction and the release, in this order: no backend request, no
\* patch-apply, no commit, and no commit is created.
C9_EmptyDiffNoNegotiation ==
    EmptyDiffExtracted =>
      /\ pc \in {"defer", "done"}
      /\ ret.kind = "nil"
      /\ requests = <<>>
      /\ commits = <<>>
      /\ ~accepted
      /\ Len(conversation) = 1
      /\ CmdNames = (<<"rev-parse", "stash push", "stash apply", "reset",
                       "stash show">>
                     \o (IF Returned THEN <<"stash drop">> ELSE <<>>))

\* A run on a tree whose only change renders as an empty diff has returned.
C9_Witness == Returned /\ EmptyDiffExtracted /\ ret.kind = "nil"

\* C10: the input of every patch-apply command ends with a newline; it is
\* the patch of the plan's action when that ends with a newline and that
\* patch with one newline appended when it does not; normalizing it again
\* changes nothing.
C10_PatchNormalized ==
    \A n \in 1..Len(cmds) :
        cmds[n].name = "apply" =>
          LET p == plan[cmds[n].idx + 1].patch
              a == cmds[n].arg
          IN /\ Len(a) > 0 /\ a[Len(a)] = NL
             /\ HasSuffixNL(p) => a = p
             /\ ~HasSuffixNL(p) => a = p \o <<NL>>
             /\ NormalizePatch(a) = a

\* Both cases were executed in one run: a patch without and a patch with a
\* trailing newline.
C10_Witness ==
    /\ Returned
    /\ \E n, m \in 1..Len(cmds) :
         /\ cmds[n].name = "apply" /\ cmds[m].name = "apply"
         /\ ~HasSuffixNL(plan[cmds[n].idx + 1].patch)
         /\ HasSuffixNL(plan[cmds[m].idx + 1].patch)

\* C11: once capture and restore have both succeeded, the pending changes of
\* the working tree are those that existed before the capture (apart from
\* what the developer edited since), and every diff extracted from the
\* snapshot is the diff of the pre-capture working tree.
C11_RestoreRoundTrip ==
    deferred =>
        /\ wt \ {"edit"} = pre
        /\ \A n \in 1..Len(cmds) :
             (cmds[n].name = "stash show" /\ cmds[n].ok)
                => cmds[n].out = DiffText(pre)

\* The commands of the executor that failed, in the order issued.
FailedActionCmds ==
    SelectSeq(cmds, LAMBDA c : c.name \in {"apply", "commit"} /\ ~c.ok)

\* The ordinal position in the plan (the first action is 1) of the action a
\* command of the executor was issued for, found by the command's input:
\* the actions of a plan differ in patch and in message.
OrdinalOf(c) ==
    CHOOSE p \in 1..Len(plan) :
        IF c.name = "apply" THEN NormalizePatch(plan[p].patch) = c.arg
        ELSE plan[p].commitMessage = c.arg

\* C12: every failed command of the executor has its recorded error, tagged
\* with the ordinal position of its action in the plan, the first action
\* being 1.
C12_ErrorTaggedWithOrdinal ==
    /\ Len(errors) = Len(FailedActionCmds)
    /\ \A n \in 1..Len(errors) :
         errors[n].i = OrdinalOf(FailedActionCmds[n])

\* What the code records instead: the index of range, the first action
\* being 0.
ErrorTaggedWithIndex ==
    /\ Len(errors) = Len(FailedActionCmds)
    /\ \A n \in 1..Len(errors) :
         errors[n].i = OrdinalOf(FailedActionCmds[n]) - 1

\* The restore failed: one of its two commands did.
RestoreFailed ==
    \E n \in 1..Len(cmds) : cmds[n].name \in {"stash apply", "reset"} /\ ~cmds[n].ok

\* C13: when one of the two commands of the restore fails, the failed
\* command is the last one the workflow issues: OnStart has returned the
\* restore error, and there was one capture, no diff extraction, no backend
\* request, no patch-apply, no commit and no release.
C13_RestoreFailureAborts ==
    RestoreFailed =>
        /\ Returned
        /\ ret.kind = "failed to unstash changes"
        /\ ~cmds[Len(cmds)].ok
        /\ cmds[Len(cmds)].name \in {"stash apply", "reset"}
        /\ Count("stash push") = 1
        /\ Count("stash show") = 0
        /\ Count("stash drop") = 0
        /\ requests = <<>>
        /\ NoApplyNoCommit

\* The stash apply succeeded and the reset failed, with the changes already
\* back in the working tree; OnStart has returned.
C13_Witness ==
    /\ Returned
    /\ RestoreFailed
    /\ cmds[Len(cmds)].name = "reset"
    /\ wt # {}

\* The precondition check failed.
CheckHasFailed ==
    \E n \in 1..Len(cmds) : cmds[n].name = "rev-parse" /\ ~cmds[n].ok

\* C14: when the repository check fails, OnStart has returned the
\* precondition error and the check is the only command it issued; what the
\* workflow holds of the repository is as it was at the start: no stash
\* entry of the run, the working tree's changes, the index and no commit.
C14_PreconditionFailureMutatesNothing ==
    CheckHasFailed =>
        /\ Returned
        /\ ret.kind = "not a git repository"
        /\ Len(cmds) = 1
        /\ stack = <<>>
        /\ wt = pre
        /\ index = [staged |-> pre \cap {"new"}, patches |-> {}]
        /\ commits = <<>>
        /\ requests = <<>>

\* The check failed in a directory with pending changes, and they are there.
C14_Witness == CheckHasFailed /\ Returned /\ pre # {} /\ wt = pre

\* C15: the release step never changes what OnStart returns: the value set
\* by the return statement that started the deferred release is the value
\* after it, whether the stash drop succeeded or failed.
C15_ReleaseKeepsOutcome == [][pc = "defer" => ret' = ret]_vars

\* A run that executed an accepted plan has returned success after a stash
\* drop that failed.
C15_Witness ==
    /\ Returned
    /\ accepted
    /\ ret.kind = "nil"
    /\ cmds[Len(cmds)].name = "stash drop"
    /\ ~cmds[Len(cmds)].ok

\* A run that failed has returned its error after a stash drop that failed.
C15_FailedRunKeepsError ==
    /\ Returned
    /\ ret.kind = "failed to get stash diff"
    /\ cmds[Len(cmds)].name = "stash drop"
    /\ ~cmds[Len(cmds)].ok

\* The stash entries on the stack that are not the run's.
ForeignEntries ==
    Cardinality({n \in 1..Len(stack) : stack[n].owner = "foreign"})

\* C16: the restore, the diff extraction and the release act on the run's
\* own snapshot only: the changes of another actor's stash entry are never
\* applied to the working tree, its diff is never the extracted diff, and
\* every entry another actor pushed is still on the stack.
C16_OnlyOwnSnapshot ==
    /\ "foreign" \notin wt
    /\ \A n \in 1..Len(cmds) :
         cmds[n].name = "stash show" => cmds[n].out # DiffText({"foreign"})
    /\ ForeignEntries = foreign

\* The capture command reported success.
CaptureSucceeded ==
    \E n \in 1..Len(cmds) : cmds[n].name = "stash push" /\ cmds[n].ok

\* C17: the capture fails only when its command reports non-success: after
\* a capture command that succeeded OnStart does not return the capture
\* error, and when it has returned it has attempted the restore, so that the
\* changes are not left out of the working tree with no restore attempted.
C17_SuccessfulCaptureIsRestored ==
    CaptureSucceeded =>
        /\ ret.kind # "failed to stash changes"
        /\ Returned => Count("stash apply") >= 1
        /\ (Returned /\ Count("stash apply") = 0) => wt = pre

\* The phase of a command: check, capture, restore (two commands), diff,
\* apply/commit, release.
Phase(name) ==
    CASE name = "rev-parse" -> 0
      [] name = "stash push" -> 1
      [] name = "stash apply" -> 2
      [] name = "reset" -> 3
      [] name = "stash show" -> 4
      [] name \in {"apply", "commit"} -> 5
      [] name = "stash drop" -> 6

\* Command name was issued before position n and succeeded.
OkBefore(name, n) ==
    \E m \in 1..(n - 1) : cmds[m].name = name /\ cmds[m].ok

\* A diff that is not empty was extracted.
DiffExtracted ==
    \E n \in 1..Len(cmds) :
        cmds[n].name = "stash show" /\ cmds[n].ok /\ cmds[n].out # ""

\* The order of the commands issued so far.
PhaseOrder ==
    /\ \A n \in 1..(Len(cmds) - 1) :
         Phase(cmds[n].name) <= Phase(cmds[n + 1].name)
    /\ \A n \in 1..Len(cmds) :
         /\ cmds[n].name = "stash show" =>
              /\ OkBefore("stash push", n)
              /\ OkBefore("stash apply", n)
              /\ OkBefore("reset", n)
         /\ cmds[n].name = "stash drop" => (n = Len(cmds) /\ Returned)
    /\ requests # <<>> => DiffExtracted
    /\ ~accepted => NoApplyNoCommit
    /\ ~NoApplyNoCommit => requests # <<>>

\* C18: the commands of a run come in the order check, capture, restore,
\* diff, apply/commit, release; the diff comes after a capture and a restore
\* that succeeded, a backend request after a diff that is not empty and
\* before the user has accepted and before any patch-apply, commit or
\* release; a patch-apply or commit comes after the user accepted a plan the
\* backend was asked for, and the release is the last command: no command
\* and no backend request is issued after it.
C18_PhaseOrder ==
    /\ PhaseOrder
    /\ [][/\ PhaseOrder'
          /\ requests' # requests =>
               /\ ~accepted
               /\ cmds' = cmds
               /\ cmds[Len(cmds)].name = "stash show"]_vars

\* A run went through every phase: it has returned after the release, with
\* a plan negotiated in two rounds and a commit made.
C18_Witness ==
    /\ Returned
    /\ accepted
    /\ Len(requests) = 2
    /\ Len(confirmations) >= 1
    /\ cmds[Len(cmds)].name = "stash drop"

\* C19: every round of the negotiation starts with the cancellation check:
\* the backend is asked only from the request step, which is entered only
\* from the check of a round that found the context live; a round that
\* starts with the context cancelled returns "context cancelled" without a
\* request.  When every step of OnStart returns, OnStart returns once the
\* user has accepted a plan or the context was cancelled.
C19_LoopYieldsToCancellation ==
    /\ [][/\ requests' # requests => pc = "backend"
          /\ (pc' = "backend" /\ pc # "backend") => (pc = "loop" /\ ~cancelled)
          /\ (pc = "loop" /\ cancelled) =>
               /\ requests' = requests
               /\ ret'.kind = "context cancelled"
               /\ pc' = "defer"]_vars
    /\ (accepted \/ cancelled) ~> Returned

\* A run cancelled while the user was asked declined the plan after the
\* last round the model gives a live context, and has returned "context
\* cancelled" from the check of the next round.
C19_Witness ==
    /\ Returned
    /\ ret.kind = "context cancelled"
    /\ Len(requests) = MaxRounds
    /\ Len(conversation) = MaxRounds + 2

\* The last n elements of a sequence
LastOf(sq, n) == SubSeq(sq, Len(sq) - n + 1, Len(sq))

\* C20: the buffer holds at most height lines, height being at least 1; its
\* lines are the last min(n, height) of the n lines written since the last
\* Clear (or since the buffer was made), in the order written, and it is
\* empty after a Clear.
C20_BoundedScrollback ==
    /\ height >= 1
    /\ lines.len <= height
    /\ Len(lines.arr) = height
    /\ LET n == Len(written) IN
       Elems(lines) = LastOf(written, IF n < height THEN n ELSE height)
    /\ written = <<>> => Elems(lines) = <<>>

\* A buffer of more than one line was written past its height: the first
\* line written has scrolled out and the buffer starts with a later one.
C20_Witness ==
    /\ height > 1
    /\ lines.len = height
    /\ Len(written) > height
    /\ lines.arr[1] # written[1]

=============================================================================
